---------------------------- MODULE Spec2Model ----------------------------
(***************************************************************************)
(* Local-Best Particle Swarm Optimization (ring topology).                 *)
(*                                                                         *)
(* The model follows src/pso/pso_algorithm.py (LocalBestPSO) and           *)
(* src/pso/particle.py (Particle).  Floating-point quantities are modelled *)
(* by integers with exact arithmetic: positions, velocities and scores are *)
(* integers, the random draws r1, r2 ~ U(0,1) range over the end points    *)
(* {0, 1}, and Gaussian noise ranges over -noise_std_dev..noise_std_dev.   *)
(* Particle indices are 0-based as in the source; vectors are sequences of *)
(* length `dimensions`.  Python's None is modelled by the empty sequence   *)
(* (every modelled configuration has dimensions >= 1).                     *)
(***************************************************************************)
EXTENDS Integers, Sequences, FiniteSets, TLC

VARIABLES
    parameters,             \* LocalBestPSO.parameters (shared dictionary)
    fitness_function,       \* which objective the engine was given
    pc,                     \* control point of the constructor / optimize()
    error,                  \* exception raised by the constructor, or "none"
    swarm,                  \* LocalBestPSO.swarm : 0..N-1 -> Particle
    global_best_position,   \* LocalBestPSO.global_best_position (<<>> = None)
    global_best_score,      \* LocalBestPSO.global_best_score
    score_history,          \* LocalBestPSO.score_history
    kinetic_energy_history, \* LocalBestPSO.kinetic_energy_history (averages)
    pbest_scores_history,   \* LocalBestPSO.pbest_scores_history
    lbest_scores_history,   \* LocalBestPSO.lbest_scores_history
    iteration,              \* loop variable of optimize()
    idx,                    \* loop variable i of the running phase
    total_kinetic_energy,   \* local of optimize()
    evaluations,            \* log of the calls of fitness_function.evaluate
    calls,                  \* number of optimize() calls started
    last_call,              \* the last direct call of a method by a test harness
    file                    \* the parameter file on disk (one path)

vars == <<parameters, fitness_function, pc, error, swarm, global_best_position,
          global_best_score, score_history, kinetic_energy_history,
          pbest_scores_history, lbest_scores_history, iteration, idx,
          total_kinetic_energy, evaluations, calls, last_call, file>>

(* What the engine is given: neither the constructor, optimize() nor the   *)
(* particle methods write the dictionary, the objective or the file.       *)
configVars == <<parameters, fitness_function, file>>

historyVars == <<score_history, kinetic_energy_history, pbest_scores_history,
                 lbest_scores_history>>

globalVars == <<global_best_position, global_best_score>>

loopVars == <<iteration, idx, total_kinetic_energy>>

---------------------------------------------------------------------------
(* Bounds of the model.                                                    *)

MaxParticles == 4
MaxNeighborhood == 2
MaxIterations == 2

(* float('-inf'): below every score an objective of the model returns.     *)
NegInf == -1000000

---------------------------------------------------------------------------
(* Arithmetic helpers.                                                     *)

Min2(a, b) == IF a <= b THEN a ELSE b

Max2(a, b) == IF a >= b THEN a ELSE b

(* Variant of Clip: only the upper bound is enforced.                      *)
ClipUpperOnly(x, lo, hi) == Min2(x, hi)

(* np.clip(x, lo, hi) = minimum(maximum(x, lo), hi)                        *)
Clip(x, lo, hi) == Min2(Max2(x, lo), hi)

ClipVec(v, lo, hi) == [d \in DOMAIN v |-> Clip(v[d], lo, hi)]

RECURSIVE SumSeq(_)
SumSeq(s) == IF s = <<>> THEN 0 ELSE s[1] + SumSeq(Tail(s))

SetMax(S) == CHOOSE m \in S : \A x \in S : x <= m

---------------------------------------------------------------------------
(* Objective functions of the repository, on integer positions.            *)

(* tests: MockFitnessFunction.evaluate = -np.sum(position**2)              *)
Sphere(position) == 0 - SumSeq([d \in DOMAIN position |-> position[d] * position[d]])

(* tests: ConcreteFitness.evaluate = 1.0                                   *)
ConstantOne(position) == 1

(* examples: RosenbrockMaximization.evaluate                               *)
RECURSIVE RosenbrockSum(_, _)
RosenbrockSum(position, i) ==
    IF i >= Len(position) THEN 0
    ELSE 100 * (position[i+1] - position[i] * position[i])
             * (position[i+1] - position[i] * position[i])
         + (1 - position[i]) * (1 - position[i])
         + RosenbrockSum(position, i + 1)

Rosenbrock(position) == 0 - RosenbrockSum(position, 1)

Objectives == {"sphere", "constant", "rosenbrock"}

Evaluate(f, position) ==
    CASE f = "sphere"     -> Sphere(position)
      [] f = "constant"   -> ConstantOne(position)
      [] f = "rosenbrock" -> Rosenbrock(position)

---------------------------------------------------------------------------
(* Configurations.  A configuration is the parameters dictionary; the      *)
(* absent dictionary (parameters=None, yaml_filepath=None) is NoParameters.*)

NoParameters == [missing |-> TRUE]

(* No method has been called directly.                                     *)
NoCall == [op |-> "none"]

(* The path does not exist: os.path.exists(filepath) is False.             *)
NoFile == [exists |-> FALSE]

(* The configuration the families below vary one factor at a time.         *)
BaseParameters ==
    [dimensions        |-> 1,
     num_particles     |-> 3,
     max_iterations    |-> MaxIterations,
     w                 |-> 1,
     c1                |-> 1,
     c2                |-> 2,
     neighborhood_size |-> 1,
     position_bounds   |-> <<-2, 2>>,
     velocity_bounds   |-> <<-1, 1>>,
     noise_std_dev     |-> 0,
     dt                |-> 1]

(* Swarm sizes and neighbourhood sizes, valid and invalid.                 *)
SizeParameters ==
    {[BaseParameters EXCEPT !.num_particles = n, !.neighborhood_size = k,
                            !.position_bounds = <<0, 1>>] :
        n \in 1..MaxParticles, k \in 0..MaxNeighborhood}

(* Iteration budgets, the empty run included.                              *)
IterationParameters ==
    {[BaseParameters EXCEPT !.max_iterations = t] : t \in 0..MaxIterations}

(* Position and velocity bounds (min < max), 0 inside and outside.         *)
BoundsParameters ==
    {[BaseParameters EXCEPT !.position_bounds = pb, !.velocity_bounds = vb] :
        pb \in {<<-2, 2>>, <<1, 3>>}, vb \in {<<-1, 1>>, <<1, 2>>, <<-2, -1>>}}

(* Gaussian noise switched on.                                             *)
NoiseParameters ==
    {[BaseParameters EXCEPT !.noise_std_dev = 1, !.position_bounds = <<0, 1>>]}

(* Two-dimensional search space.                                           *)
DimensionParameters ==
    {[BaseParameters EXCEPT !.dimensions = 2, !.position_bounds = <<0, 1>>]}

(* Inertia, cognitive and social coefficients and the time step.           *)
CoefficientParameters ==
    {[BaseParameters EXCEPT !.w = w, !.c1 = c1, !.c2 = c2, !.dt = dt,
                            !.position_bounds = <<-1, 1>>] :
        w \in {0, 1}, c1 \in {0, 2}, c2 \in {1, 2}, dt \in {1, 2}}

Configurations ==
    SizeParameters \cup IterationParameters \cup BoundsParameters
        \cup NoiseParameters \cup DimensionParameters \cup CoefficientParameters

---------------------------------------------------------------------------
(* Particle (src/pso/particle.py).                                         *)

Zeros(dimensions) == [d \in 1..dimensions |-> 0]

(* Variant of NewParticle: best_position starts at the origin.             *)
NewParticleBestAtOrigin(params, position) ==
    [position               |-> position,
     velocity               |-> Zeros(params.dimensions),
     kinetic_energy         |-> 0,
     best_position          |-> Zeros(params.dimensions),
     best_score             |-> NegInf,
     energy_history         |-> <<>>,
     kinetic_energy_history |-> <<>>]

(* Particle.__init__ with the random position already drawn.               *)
NewParticle(params, position) ==
    [position               |-> position,
     velocity               |-> Zeros(params.dimensions),
     kinetic_energy         |-> 0,
     best_position          |-> position,
     best_score             |-> NegInf,
     energy_history         |-> <<>>,
     kinetic_energy_history |-> <<>>]

(* The positions random.uniform(min_pos_bound, max_pos_bound) can draw.    *)
InitialPositions(params) ==
    [1..params.dimensions -> params.position_bounds[1]..params.position_bounds[2]]

(* The values np.random.normal(0, noise_std_dev, dimensions) can draw.     *)
NoiseVectors(params) ==
    [1..params.dimensions -> (0 - params.noise_std_dev)..params.noise_std_dev]

(* The values random.uniform(0, 1) can draw.                               *)
UnitDraws == {0, 1}

(* 0.5 * np.sum(velocity**2), in units of one half.                        *)
KineticEnergy(velocity) ==
    SumSeq([d \in DOMAIN velocity |-> velocity[d] * velocity[d]])

(* Variant of UpdateVelocity: the kinetic energy is not logged.            *)
UpdateVelocityNoLog(p, params, local_best_position, r1, r2, gaussian_noise) ==
    LET raw == [d \in DOMAIN p.velocity |->
                   params.w * p.velocity[d]
                   + params.c1 * r1 * (p.best_position[d] - p.position[d])
                   + params.c2 * r2 * (local_best_position[d] - p.position[d])
                   + gaussian_noise[d]]
        clipped == ClipVec(raw, params.velocity_bounds[1], params.velocity_bounds[2])
    IN  [p EXCEPT !.velocity = clipped,
                  !.kinetic_energy = KineticEnergy(clipped)]

(* Variant of UpdateVelocity: the velocity is not clipped.                  *)
UpdateVelocityUnclipped(p, params, local_best_position, r1, r2, gaussian_noise) ==
    LET raw == [d \in DOMAIN p.velocity |->
                   params.w * p.velocity[d]
                   + params.c1 * r1 * (p.best_position[d] - p.position[d])
                   + params.c2 * r2 * (local_best_position[d] - p.position[d])
                   + gaussian_noise[d]]
    IN  [p EXCEPT !.velocity = raw,
                  !.kinetic_energy = KineticEnergy(raw),
                  !.kinetic_energy_history = Append(@, KineticEnergy(raw))]

(* Particle.update_velocity                                                *)
UpdateVelocity(p, params, local_best_position, r1, r2, gaussian_noise) ==
    LET raw == [d \in DOMAIN p.velocity |->
                   params.w * p.velocity[d]
                   + params.c1 * r1 * (p.best_position[d] - p.position[d])
                   + params.c2 * r2 * (local_best_position[d] - p.position[d])
                   + gaussian_noise[d]]
        clipped == ClipVec(raw, params.velocity_bounds[1], params.velocity_bounds[2])
    IN  [p EXCEPT !.velocity = clipped,
                  !.kinetic_energy = KineticEnergy(clipped),
                  !.kinetic_energy_history = Append(@, KineticEnergy(clipped))]

(* Variant of UpdatePosition: the lower clamp uses the upper bound's sign   *)
(* flipped, i.e. clamps to [-max, max] instead of [min, max].              *)
UpdatePositionSymmetricClamp(p, params) ==
    LET moved == [d \in DOMAIN p.position |-> p.position[d] + p.velocity[d] * params.dt]
    IN  [p EXCEPT !.position =
             ClipVec(moved, 0 - params.position_bounds[2], params.position_bounds[2])]

(* Variant of UpdatePosition: best_position shares the array position is   *)
(* updated in place (`position += velocity * dt`), so it moves with it.    *)
UpdatePositionAliasedBest(p, params) ==
    LET moved == [d \in DOMAIN p.position |-> p.position[d] + p.velocity[d] * params.dt]
    IN  [p EXCEPT !.position =
             ClipVec(moved, params.position_bounds[1], params.position_bounds[2]),
                  !.best_position = moved]

(* Particle.update_position                                                *)
UpdatePosition(p, params) ==
    LET moved == [d \in DOMAIN p.position |-> p.position[d] + p.velocity[d] * params.dt]
    IN  [p EXCEPT !.position =
             ClipVec(moved, params.position_bounds[1], params.position_bounds[2])]

---------------------------------------------------------------------------
(* Neighbourhood lookup (src/pso/pso_algorithm.py).                        *)

NeighborIndex(particle_index, offset, num_particles) ==
    (particle_index + offset + num_particles) % num_particles

(* Variant of PositionScan: a neighbour replaces the candidate on a tie     *)
(* (>= in place of >).                                                     *)
RECURSIVE PositionScanNonStrict(_, _, _, _, _)
PositionScanNonStrict(sw, params, particle_index, offset, best_candidate) ==
    IF offset > params.neighborhood_size THEN best_candidate
    ELSE IF offset = 0
         THEN PositionScanNonStrict(sw, params, particle_index, offset + 1,
                                    best_candidate)
         ELSE LET neighbor_index ==
                      NeighborIndex(particle_index, offset, params.num_particles)
              IN  IF sw[neighbor_index].best_score >= sw[best_candidate].best_score
                  THEN PositionScanNonStrict(sw, params, particle_index, offset + 1,
                                             neighbor_index)
                  ELSE PositionScanNonStrict(sw, params, particle_index, offset + 1,
                                             best_candidate)

(* The loop of _get_local_best_position from `offset` on; returns the      *)
(* index of best_candidate.                                                *)
RECURSIVE PositionScan(_, _, _, _, _)
PositionScan(sw, params, particle_index, offset, best_candidate) ==
    IF offset > params.neighborhood_size THEN best_candidate
    ELSE IF offset = 0
         THEN PositionScan(sw, params, particle_index, offset + 1, best_candidate)
         ELSE LET neighbor_index ==
                      NeighborIndex(particle_index, offset, params.num_particles)
              IN  IF sw[neighbor_index].best_score > sw[best_candidate].best_score
                  THEN PositionScan(sw, params, particle_index, offset + 1, neighbor_index)
                  ELSE PositionScan(sw, params, particle_index, offset + 1, best_candidate)

GetLocalBestPosition(sw, params, particle_index) ==
    sw[PositionScan(sw, params, particle_index,
                    0 - params.neighborhood_size, particle_index)].best_position

(* Variant of ScoreScan: range(-neighborhood_size, neighborhood_size),     *)
(* which leaves out the last neighbour.                                    *)
RECURSIVE ScoreScanShortRange(_, _, _, _, _)
ScoreScanShortRange(sw, params, particle_index, offset, best_candidate) ==
    IF offset >= params.neighborhood_size THEN best_candidate
    ELSE IF offset = 0
         THEN ScoreScanShortRange(sw, params, particle_index, offset + 1, best_candidate)
         ELSE LET neighbor_index ==
                      NeighborIndex(particle_index, offset, params.num_particles)
              IN  IF sw[neighbor_index].best_score > sw[best_candidate].best_score
                  THEN ScoreScanShortRange(sw, params, particle_index, offset + 1,
                                           neighbor_index)
                  ELSE ScoreScanShortRange(sw, params, particle_index, offset + 1,
                                           best_candidate)

(* The loop of _get_local_best_score from `offset` on.                     *)
RECURSIVE ScoreScan(_, _, _, _, _)
ScoreScan(sw, params, particle_index, offset, best_candidate) ==
    IF offset > params.neighborhood_size THEN best_candidate
    ELSE IF offset = 0
         THEN ScoreScan(sw, params, particle_index, offset + 1, best_candidate)
         ELSE LET neighbor_index ==
                      NeighborIndex(particle_index, offset, params.num_particles)
              IN  IF sw[neighbor_index].best_score > sw[best_candidate].best_score
                  THEN ScoreScan(sw, params, particle_index, offset + 1, neighbor_index)
                  ELSE ScoreScan(sw, params, particle_index, offset + 1, best_candidate)

(* Variant of GetLocalBestScore: the scan starts from the first neighbour  *)
(* instead of the particle itself.                                         *)
GetLocalBestScoreNeighborsOnly(sw, params, particle_index) ==
    sw[ScoreScan(sw, params, particle_index, 0 - params.neighborhood_size,
                 NeighborIndex(particle_index, 0 - params.neighborhood_size,
                               params.num_particles))].best_score

GetLocalBestScore(sw, params, particle_index) ==
    sw[ScoreScan(sw, params, particle_index,
                 0 - params.neighborhood_size, particle_index)].best_score

(* Variant of GlobalBestScan: the guard compares with the first particle   *)
(* instead of the running global best.                                     *)
RECURSIVE GlobalBestScanWrongGuard(_, _, _, _, _)
GlobalBestScanWrongGuard(sw, num_particles, j, best_position, best_score) ==
    IF j >= num_particles THEN <<best_position, best_score>>
    ELSE IF sw[j].best_score > sw[0].best_score
         THEN GlobalBestScanWrongGuard(sw, num_particles, j + 1,
                                       sw[j].best_position, sw[j].best_score)
         ELSE GlobalBestScanWrongGuard(sw, num_particles, j + 1,
                                       best_position, best_score)

(* Variant of GlobalBestScan: the last particle is never looked at.        *)
RECURSIVE GlobalBestScanSkipLast(_, _, _, _, _)
GlobalBestScanSkipLast(sw, num_particles, j, best_position, best_score) ==
    IF j >= num_particles - 1 THEN <<best_position, best_score>>
    ELSE IF sw[j].best_score > best_score
         THEN GlobalBestScanSkipLast(sw, num_particles, j + 1,
                                     sw[j].best_position, sw[j].best_score)
         ELSE GlobalBestScanSkipLast(sw, num_particles, j + 1,
                                     best_position, best_score)

(* The global-best loop of optimize() from particle j on; returns the pair *)
(* <<global_best_position, global_best_score>>.                            *)
RECURSIVE GlobalBestScan(_, _, _, _, _)
GlobalBestScan(sw, num_particles, j, best_position, best_score) ==
    IF j >= num_particles THEN <<best_position, best_score>>
    ELSE IF sw[j].best_score > best_score
         THEN GlobalBestScan(sw, num_particles, j + 1, sw[j].best_position, sw[j].best_score)
         ELSE GlobalBestScan(sw, num_particles, j + 1, best_position, best_score)

---------------------------------------------------------------------------
(* The engine.                                                             *)

Init ==
    /\ parameters \in Configurations \cup {NoParameters}
    /\ fitness_function \in Objectives
    /\ pc = "new"
    /\ error = "none"
    /\ swarm = <<>>
    /\ global_best_position = <<>>
    /\ global_best_score = NegInf
    /\ score_history = <<>>
    /\ kinetic_energy_history = <<>>
    /\ pbest_scores_history = <<>>
    /\ lbest_scores_history = <<>>
    /\ iteration = 0
    /\ idx = 0
    /\ total_kinetic_energy = 0
    /\ evaluations = <<>>
    /\ calls = 0
    /\ last_call = NoCall
    /\ file = NoFile

(* Variant of NeighborhoodSizeValid: floor division num_particles // 2.    *)
NeighborhoodSizeValidFloorDiv(params) ==
    /\ 1 <= params.neighborhood_size
    /\ params.neighborhood_size < params.num_particles \div 2

(* The condition of the neighbourhood check of __init__:                   *)
(* 1 <= neighborhood_size < num_particles / 2 (true division).             *)
NeighborhoodSizeValid(params) ==
    /\ 1 <= params.neighborhood_size
    /\ 2 * params.neighborhood_size < params.num_particles

(* LocalBestPSO.__init__ without a parameters dictionary.                  *)
ConstructWithoutParameters ==
    /\ pc = "new"
    /\ parameters = NoParameters
    /\ pc' = "failed"
    /\ error' = "ValueError: parameters or yaml_filepath must be provided"
    /\ UNCHANGED <<configVars, swarm, globalVars, historyVars, loopVars,
                   evaluations, calls, last_call>>

(* LocalBestPSO.__init__ rejecting the neighbourhood size.                 *)
ConstructRejected ==
    /\ pc = "new"
    /\ parameters # NoParameters
    /\ ~NeighborhoodSizeValid(parameters)
    /\ pc' = "failed"
    /\ error' = "ValueError: neighborhood size"
    /\ UNCHANGED <<configVars, swarm, globalVars, historyVars, loopVars,
                   evaluations, calls, last_call>>

(* LocalBestPSO.__init__ succeeding.                                       *)
Construct ==
    /\ pc = "new"
    /\ parameters # NoParameters
    /\ NeighborhoodSizeValid(parameters)
    /\ \E positions \in [0..(parameters.num_particles - 1) -> InitialPositions(parameters)] :
          swarm' = [i \in 0..(parameters.num_particles - 1) |->
                        NewParticle(parameters, positions[i])]
    /\ global_best_position' = <<>>
    /\ global_best_score' = NegInf
    /\ score_history' = <<>>
    /\ kinetic_energy_history' = <<>>
    /\ pbest_scores_history' = [i \in 0..(parameters.num_particles - 1) |-> <<>>]
    /\ lbest_scores_history' = [i \in 0..(parameters.num_particles - 1) |-> <<>>]
    /\ pc' = "ready"
    /\ UNCHANGED <<configVars, error, loopVars, evaluations, calls, last_call>>

(* Variant of LoopContinues: the loop stops one iteration early.           *)
LoopContinuesEarlyExit(next_iteration, max_iterations) ==
    next_iteration + 1 < max_iterations

(* The test of `for iteration in range(max_iterations)`.                   *)
LoopContinues(next_iteration, max_iterations) ==
    next_iteration < max_iterations

(* Control after the loop test at the start of iteration next_iteration.   *)
AfterLoopTest(next_iteration) ==
    /\ idx' = 0
    /\ pc' = IF LoopContinues(next_iteration, parameters.max_iterations)
             THEN "phase1" ELSE "returned"

(* Control after the body of `for i, particle in enumerate(self.swarm)`    *)
(* has run for particle idx; next_phase follows the loop.                  *)
AfterParticle(next_phase) ==
    IF idx + 1 < parameters.num_particles
    THEN /\ idx' = idx + 1
         /\ pc' = pc
    ELSE /\ idx' = 0
         /\ pc' = next_phase

(* optimize(): entry, and the first test of the iteration loop.            *)
OptimizeCall ==
    /\ pc = "ready"
    /\ calls' = calls + 1
    /\ iteration' = 0
    /\ total_kinetic_energy' = 0
    /\ AfterLoopTest(0)
    /\ UNCHANGED <<configVars, error, swarm, globalVars, historyVars,
                   evaluations, last_call>>

(* Phase 1 body for particle idx: evaluate, update pbest, log pbest/lbest. *)
EvaluateParticle ==
    /\ pc = "phase1"
    /\ LET particle == swarm[idx]
           current_score == Evaluate(fitness_function, particle.position)
           logged == [particle EXCEPT !.energy_history = Append(@, current_score)]
           updated == IF current_score > particle.best_score
                      THEN [logged EXCEPT !.best_score = current_score,
                                          !.best_position = particle.position]
                      ELSE logged
           sw == [swarm EXCEPT ![idx] = updated]
       IN  /\ swarm' = sw
           /\ evaluations' = Append(evaluations,
                  [particle |-> idx, position |-> particle.position,
                   score |-> current_score])
           /\ pbest_scores_history' =
                  [pbest_scores_history EXCEPT ![idx] = Append(@, updated.best_score)]
           /\ lbest_scores_history' =
                  [lbest_scores_history EXCEPT
                       ![idx] = Append(@, GetLocalBestScore(sw, parameters, idx))]
    /\ AfterParticle("phase2")
    /\ UNCHANGED <<configVars, error, globalVars, score_history,
                   kinetic_energy_history, iteration, total_kinetic_energy,
                   calls, last_call>>

(* Phase 2 body for particle idx: velocity and position update.            *)
UpdateParticle ==
    /\ pc = "phase2"
    /\ \E r1 \in UnitDraws, r2 \in UnitDraws, gaussian_noise \in NoiseVectors(parameters) :
          LET local_best_position == GetLocalBestPosition(swarm, parameters, idx)
              moved == UpdatePosition(
                           UpdateVelocity(swarm[idx], parameters, local_best_position,
                                          r1, r2, gaussian_noise),
                           parameters)
          IN  /\ swarm' = [swarm EXCEPT ![idx] = moved]
              /\ total_kinetic_energy' = total_kinetic_energy + moved.kinetic_energy
    /\ AfterParticle("aggregate")
    /\ UNCHANGED <<configVars, error, globalVars, historyVars, iteration,
                   evaluations, calls, last_call>>

(* End of an iteration: average kinetic energy, global best, score log,    *)
(* and the next test of the iteration loop.  The average                   *)
(* total_kinetic_energy / num_particles is kept as the pair                *)
(* <<numerator, denominator>>.                                             *)
Aggregate ==
    /\ pc = "aggregate"
    /\ kinetic_energy_history' =
           Append(kinetic_energy_history,
                  <<total_kinetic_energy, parameters.num_particles>>)
    /\ LET best == GlobalBestScan(swarm, parameters.num_particles, 0,
                                  global_best_position, global_best_score)
       IN  /\ global_best_position' = best[1]
           /\ global_best_score' = best[2]
           /\ score_history' = Append(score_history, best[2])
    /\ iteration' = iteration + 1
    /\ total_kinetic_energy' = 0
    /\ AfterLoopTest(iteration + 1)
    /\ UNCHANGED <<configVars, error, swarm, pbest_scores_history,
                   lbest_scores_history, evaluations, calls, last_call>>

Next ==
    \/ ConstructWithoutParameters
    \/ ConstructRejected
    \/ Construct
    \/ OptimizeCall
    \/ EvaluateParticle
    \/ UpdateParticle
    \/ Aggregate

Spec == Init /\ [][Next]_vars

(* optimize() runs sequentially: once it is called, control keeps moving   *)
(* through its statements.  OptimizeProgress is the control part of the    *)
(* four actions of optimize(); fairness is stated on it.                   *)
OptimizeProgress ==
    \/ pc = "ready" /\ AfterLoopTest(0)
    \/ pc = "phase1" /\ AfterParticle("phase2")
    \/ pc = "phase2" /\ AfterParticle("aggregate")
    \/ pc = "aggregate" /\ AfterLoopTest(iteration + 1)

FairSpec == Spec /\ WF_<<pc, idx>>(OptimizeProgress)

---------------------------------------------------------------------------
(* Consecutive calls of optimize() on the same engine.                     *)

MaxCalls == 2

(* The iteration budgets of the engines called repeatedly.                 *)
RepeatedIterations == {0, 1, 2}

(* Valid configurations, and one configuration the constructor rejects.    *)
RepeatedParameters ==
    {[BaseParameters EXCEPT !.max_iterations = t] : t \in RepeatedIterations}
        \cup {[BaseParameters EXCEPT !.neighborhood_size = 0]}

InitRepeated ==
    /\ parameters \in RepeatedParameters \cup {NoParameters}
    /\ fitness_function \in Objectives
    /\ pc = "new"
    /\ error = "none"
    /\ swarm = <<>>
    /\ global_best_position = <<>>
    /\ global_best_score = NegInf
    /\ score_history = <<>>
    /\ kinetic_energy_history = <<>>
    /\ pbest_scores_history = <<>>
    /\ lbest_scores_history = <<>>
    /\ iteration = 0
    /\ idx = 0
    /\ total_kinetic_energy = 0
    /\ evaluations = <<>>
    /\ calls = 0
    /\ last_call = NoCall
    /\ file = NoFile

(* Variant of OptimizeAgain: the call starts from empty histories and a    *)
(* global best of -infinity.                                               *)
OptimizeAgainFromScratch ==
    /\ pc = "returned"
    /\ calls < MaxCalls
    /\ calls' = calls + 1
    /\ iteration' = 0
    /\ total_kinetic_energy' = 0
    /\ AfterLoopTest(0)
    /\ global_best_position' = <<>>
    /\ global_best_score' = NegInf
    /\ score_history' = <<>>
    /\ kinetic_energy_history' = <<>>
    /\ UNCHANGED <<configVars, error, swarm, pbest_scores_history,
                   lbest_scores_history, evaluations, last_call>>

(* optimize() called again after it has returned: entry, and the first     *)
(* test of the iteration loop.  Nothing of the engine is reset.            *)
OptimizeAgain ==
    /\ pc = "returned"
    /\ calls < MaxCalls
    /\ calls' = calls + 1
    /\ iteration' = 0
    /\ total_kinetic_energy' = 0
    /\ AfterLoopTest(0)
    /\ UNCHANGED <<configVars, error, swarm, globalVars, historyVars,
                   evaluations, last_call>>

NextRepeated ==
    \/ Next
    \/ OptimizeAgain

SpecRepeated == InitRepeated /\ [][NextRepeated]_vars

---------------------------------------------------------------------------
(* Direct calls of the neighbourhood queries on a constructed engine whose *)
(* personal bests were assigned by hand, as in                             *)
(* test_pso_neighborhood_best_is_found.                                    *)

MaxRing == 5
ScoreLevels == 2

RingScores == {NegInf} \cup (0 - ScoreLevels)..(0 - 1)

RingParameters ==
    {[BaseParameters EXCEPT !.num_particles = n, !.neighborhood_size = k,
                            !.position_bounds = <<0, n - 1>>] :
        n \in 3..MaxRing, k \in 1..MaxRing}

(* A constructed engine: particle i was drawn at position <<i>> (so that   *)
(* best_position tells the particles apart), then best_score was set.      *)
InitNeighborhood ==
    /\ parameters \in {c \in RingParameters : NeighborhoodSizeValid(c)}
    /\ fitness_function = "sphere"
    /\ pc = "ready"
    /\ error = "none"
    /\ \E scores \in [0..(parameters.num_particles - 1) -> RingScores] :
          swarm = [i \in 0..(parameters.num_particles - 1) |->
                      [NewParticle(parameters, <<i>>) EXCEPT !.best_score = scores[i]]]
    /\ global_best_position = <<>>
    /\ global_best_score = NegInf
    /\ score_history = <<>>
    /\ kinetic_energy_history = <<>>
    /\ pbest_scores_history = [i \in 0..(parameters.num_particles - 1) |-> <<>>]
    /\ lbest_scores_history = [i \in 0..(parameters.num_particles - 1) |-> <<>>]
    /\ iteration = 0
    /\ idx = 0
    /\ total_kinetic_energy = 0
    /\ evaluations = <<>>
    /\ calls = 0
    /\ last_call = NoCall
    /\ file = NoFile

(* pso._get_local_best_score(particle_index)                               *)
QueryLocalBestScore ==
    /\ pc = "ready"
    /\ \E particle_index \in 0..(parameters.num_particles - 1) :
          last_call' = [op             |-> "_get_local_best_score",
                        particle_index |-> particle_index,
                        result         |-> GetLocalBestScore(swarm, parameters,
                                                             particle_index),
                        swarm_before   |-> swarm]
    /\ UNCHANGED <<configVars, pc, error, swarm, globalVars, historyVars, loopVars,
                   evaluations, calls>>

(* pso._get_local_best_position(particle_index)                            *)
QueryLocalBestPosition ==
    /\ pc = "ready"
    /\ \E particle_index \in 0..(parameters.num_particles - 1) :
          last_call' = [op             |-> "_get_local_best_position",
                        particle_index |-> particle_index,
                        result         |-> GetLocalBestPosition(swarm, parameters,
                                                                particle_index),
                        swarm_before   |-> swarm]
    /\ UNCHANGED <<configVars, pc, error, swarm, globalVars, historyVars, loopVars,
                   evaluations, calls>>

NextNeighborhood ==
    \/ QueryLocalBestScore
    \/ QueryLocalBestPosition

SpecNeighborhood == InitNeighborhood /\ [][NextNeighborhood]_vars

---------------------------------------------------------------------------
(* Direct calls of update_velocity / update_position on a single Particle  *)
(* whose fields were assigned by hand, as in test_particle_update_velocity *)
(* and test_particle_position_clamping.  The particle is swarm[0].         *)

MaxCoordinate == 2
MaxParticleCalls == 2

Coordinates == (0 - MaxCoordinate)..MaxCoordinate

ParticleParameters ==
    {[BaseParameters EXCEPT !.num_particles = 1, !.w = w, !.c1 = c1, !.c2 = c2,
                            !.dt = dt, !.noise_std_dev = sd,
                            !.position_bounds = pb, !.velocity_bounds = vb] :
        w \in {0, 2}, c1 \in {1}, c2 \in {3}, dt \in {1, 2}, sd \in {0, 1},
        pb \in {<<-1, 1>>}, vb \in {<<-1, 1>>, <<1, 2>>}}

InitParticle ==
    /\ parameters \in ParticleParameters
    /\ fitness_function = "sphere"
    /\ pc = "particle"
    /\ error = "none"
    /\ \E position \in InitialPositions(parameters),
          velocity \in [1..parameters.dimensions -> Coordinates],
          best_position \in InitialPositions(parameters) :
          swarm = [i \in {0} |->
                      [NewParticle(parameters, position) EXCEPT
                           !.velocity = velocity,
                           !.best_position = best_position]]
    /\ global_best_position = <<>>
    /\ global_best_score = NegInf
    /\ score_history = <<>>
    /\ kinetic_energy_history = <<>>
    /\ pbest_scores_history = <<>>
    /\ lbest_scores_history = <<>>
    /\ iteration = 0
    /\ idx = 0
    /\ total_kinetic_energy = 0
    /\ evaluations = <<>>
    /\ calls = 0
    /\ last_call = NoCall
    /\ file = NoFile

(* particle.update_velocity(local_best_position)                           *)
CallUpdateVelocity ==
    /\ pc = "particle"
    /\ Len(swarm[0].kinetic_energy_history) < MaxParticleCalls
    /\ \E local_best_position \in InitialPositions(parameters),
          r1 \in UnitDraws, r2 \in UnitDraws,
          gaussian_noise \in NoiseVectors(parameters) :
          /\ swarm' = [swarm EXCEPT ![0] =
                           UpdateVelocity(swarm[0], parameters, local_best_position,
                                          r1, r2, gaussian_noise)]
          /\ last_call' = [op     |-> "update_velocity",
                           before |-> swarm[0],
                           local_best_position |-> local_best_position,
                           r1 |-> r1, r2 |-> r2, gaussian_noise |-> gaussian_noise]
    /\ UNCHANGED <<configVars, pc, error, globalVars, historyVars, loopVars,
                   evaluations, calls>>

(* particle.update_position()                                              *)
CallUpdatePosition ==
    /\ pc = "particle"
    /\ swarm' = [swarm EXCEPT ![0] = UpdatePosition(swarm[0], parameters)]
    /\ last_call' = [op |-> "update_position", before |-> swarm[0]]
    /\ UNCHANGED <<configVars, pc, error, globalVars, historyVars, loopVars,
                   evaluations, calls>>

NextParticle ==
    \/ CallUpdateVelocity
    \/ CallUpdatePosition

SpecParticle == InitParticle /\ [][NextParticle]_vars

---------------------------------------------------------------------------
(* ParameterManager (src/pso/parameter_manager.py).                        *)
(*                                                                         *)
(* Python values carry their type, so that a tuple and a list with the     *)
(* same items are different values.  Floats are written in hundredths.     *)
(* A YAML document is the node tree yaml.safe_dump emits and               *)
(* yaml.safe_load reads; top-level documents of the model are mappings and *)
(* the empty document.                                                     *)

PyNone == [type |-> "NoneType"]

PyInt(n) == [type |-> "int", value |-> n]

PyFloat(n) == [type |-> "float", value |-> n]

PyTuple(items) == [type |-> "tuple", items |-> items]

PyList(items) == [type |-> "list", items |-> items]

PyDict(entries) == [type |-> "dict", entries |-> entries]

required_keys ==
    <<"dimensions", "num_particles", "max_iterations", "w", "c1", "c2",
      "neighborhood_size", "position_bounds", "velocity_bounds",
      "noise_std_dev", "dt">>

RequiredKeySet == {required_keys[n] : n \in DOMAIN required_keys}

(* An int or float scalar node.                                            *)
RepresentScalar(v) == [tag |-> v.type, value |-> v.value]

(* Variant of SafeRepresent: yaml.dump's representer, which writes a tuple *)
(* with the tag !!python/tuple.                                            *)
RepresentWithPythonTags(v) ==
    IF v.type = "tuple"
    THEN [tag |-> "python/tuple",
          items |-> [n \in DOMAIN v.items |-> RepresentScalar(v.items[n])]]
    ELSE IF v.type = "list"
         THEN [tag |-> "seq",
               items |-> [n \in DOMAIN v.items |-> RepresentScalar(v.items[n])]]
         ELSE RepresentScalar(v)

(* yaml.safe_dump's representer: tuples and lists both become sequences.   *)
SafeRepresent(v) ==
    IF v.type \in {"tuple", "list"}
    THEN [tag |-> "seq",
          items |-> [n \in DOMAIN v.items |-> RepresentScalar(v.items[n])]]
    ELSE RepresentScalar(v)

(* yaml.safe_dump(params, f, sort_keys=False)                              *)
SafeDump(params) ==
    [tag |-> "map",
     entries |-> [k \in DOMAIN params.entries |-> SafeRepresent(params.entries[k])]]

(* The nodes yaml.safe_load has a constructor for.                         *)
Constructible(node) == node.tag \in {"int", "float", "seq", "null"}

(* yaml.safe_load's constructor: a sequence becomes a list.                *)
SafeConstruct(node) ==
    CASE node.tag = "seq" ->
             PyList([n \in DOMAIN node.items |->
                        [type |-> node.items[n].tag, value |-> node.items[n].value]])
      [] node.tag = "null" -> PyNone
      [] OTHER -> [type |-> node.tag, value |-> node.value]

(* yaml.safe_load raises no error on the document.                         *)
Loadable(document) ==
    IF document.tag = "map"
    THEN \A k \in DOMAIN document.entries : Constructible(document.entries[k])
    ELSE Constructible(document)

(* yaml.safe_load(f)                                                       *)
SafeLoad(document) ==
    IF document.tag = "map"
    THEN PyDict([k \in DOMAIN document.entries |-> SafeConstruct(document.entries[k])])
    ELSE SafeConstruct(document)

(* The outcome of a call: an exception, or a returned value.               *)
Raise(exception, key) == [raised |-> exception, key |-> key, result |-> PyNone]

Return(value) == [raised |-> "none", key |-> "", result |-> value]

(* The loop `for key in required_keys` of load_parameters from the n-th    *)
(* key on.                                                                 *)
RECURSIVE CheckRequiredKeys(_, _)
CheckRequiredKeys(params, n) ==
    IF n > Len(required_keys) THEN Return(params)
    ELSE IF required_keys[n] \notin DOMAIN params.entries
         THEN Raise("KeyError", required_keys[n])
         ELSE CheckRequiredKeys(params, n + 1)

(* ParameterManager.load_parameters(filepath) on the file f.  With         *)
(* params = None the test `key not in params` raises TypeError.            *)
LoadOutcome(f) ==
    IF ~f.exists THEN Raise("FileNotFoundError", "")
    ELSE IF ~f.valid THEN Raise("yaml.YAMLError", "")
    ELSE IF ~Loadable(f.document) THEN Raise("yaml.YAMLError", "")
    ELSE LET params == SafeLoad(f.document)
         IN  IF params.type = "NoneType" THEN Raise("TypeError", "")
             ELSE CheckRequiredKeys(params, 1)

(* Direct calls of save_parameters / load_parameters on one path, as in    *)
(* test_save_and_load_parameters and test_load_parameters_missing_key.     *)

(* pso_params of the tests.                                                *)
ReferenceEntries ==
    [k \in RequiredKeySet |->
        CASE k = "dimensions"        -> PyInt(2)
          [] k = "num_particles"     -> PyInt(10)
          [] k = "max_iterations"    -> PyInt(5)
          [] k = "w"                 -> PyFloat(70)
          [] k = "c1"                -> PyFloat(150)
          [] k = "c2"                -> PyFloat(150)
          [] k = "neighborhood_size" -> PyInt(2)
          [] k = "position_bounds"   -> PyTuple(<<PyFloat(-500), PyFloat(500)>>)
          [] k = "velocity_bounds"   -> PyTuple(<<PyFloat(-50), PyFloat(50)>>)
          [] k = "noise_std_dev"     -> PyFloat(5)
          [] k = "dt"                -> PyFloat(100)]

(* The same items in a tuple or in a list.                                 *)
Containers(items) == {PyTuple(items), PyList(items)}

(* Dictionaries holding all required keys: bounds as tuples or lists, int  *)
(* or float values, with or without a key load_parameters does not ask for.*)
CompleteDicts ==
    {PyDict([k \in RequiredKeySet \cup extra |->
                CASE k = "position_bounds" -> pb
                  [] k = "velocity_bounds" -> vb
                  [] k = "dt"              -> dt
                  [] k = "seed"            -> PyInt(42)
                  [] OTHER                 -> ReferenceEntries[k]]) :
        pb \in Containers(<<PyFloat(-500), PyFloat(500)>>)
                   \cup {PyTuple(<<PyInt(0), PyInt(1)>>)},
        vb \in Containers(<<PyFloat(-50), PyFloat(50)>>),
        dt \in {PyInt(1), PyFloat(100)},
        extra \in {{}, {"seed"}}}

(* incomplete_params of test_load_parameters_missing_key, and {}.          *)
IncompleteDicts ==
    {PyDict([k \in keys |-> ReferenceEntries[k]]) :
        keys \in {{}, {"dimensions", "num_particles"}}}

ParameterDicts == CompleteDicts \cup IncompleteDicts

WrittenFile(document) == [exists |-> TRUE, valid |-> TRUE, document |-> document]

(* A file yaml.safe_load raises yaml.YAMLError on.                         *)
SyntaxErrorFile == [exists |-> TRUE, valid |-> FALSE]

(* A file of zero bytes (or of comments only): safe_load returns None.     *)
EmptyDocument == [tag |-> "null"]

(* Files holding a mapping with any set of the required keys.              *)
KeySubsetFiles ==
    {WrittenFile(SafeDump(PyDict([k \in keys |-> ReferenceEntries[k]]))) :
        keys \in SUBSET RequiredKeySet}

InitParameters ==
    /\ \/ /\ parameters \in ParameterDicts
          /\ file \in {NoFile, SyntaxErrorFile, WrittenFile(EmptyDocument)}
       \/ /\ parameters = PyDict(ReferenceEntries)
          /\ file \in KeySubsetFiles
    /\ fitness_function = "sphere"
    /\ pc = "parameters"
    /\ error = "none"
    /\ swarm = <<>>
    /\ global_best_position = <<>>
    /\ global_best_score = NegInf
    /\ score_history = <<>>
    /\ kinetic_energy_history = <<>>
    /\ pbest_scores_history = <<>>
    /\ lbest_scores_history = <<>>
    /\ iteration = 0
    /\ idx = 0
    /\ total_kinetic_energy = 0
    /\ evaluations = <<>>
    /\ calls = 0
    /\ last_call = NoCall

(* ParameterManager.save_parameters(filepath, parameters) on a writable    *)
(* path: the file is created or overwritten.                               *)
SaveParameters ==
    /\ pc = "parameters"
    /\ file' = WrittenFile(SafeDump(parameters))
    /\ last_call' = [op |-> "save_parameters"]
    /\ UNCHANGED <<parameters, fitness_function, pc, error, swarm, globalVars,
                   historyVars, loopVars, evaluations, calls>>

(* ParameterManager.load_parameters(filepath)                              *)
LoadParameters ==
    /\ pc = "parameters"
    /\ last_call' = [op      |-> "load_parameters",
                     after   |-> last_call.op,
                     outcome |-> LoadOutcome(file)]
    /\ UNCHANGED <<configVars, pc, error, swarm, globalVars, historyVars, loopVars,
                   evaluations, calls>>

NextParameters ==
    \/ SaveParameters
    \/ LoadParameters

SpecParameters == InitParameters /\ [][NextParameters]_vars

---------------------------------------------------------------------------
(* Vocabulary of the properties.                                           *)

Constructed == pc \in {"ready", "phase1", "phase2", "aggregate", "returned"}

ParticleIndices == 0..(parameters.num_particles - 1)

(* The ring neighbourhood of particle i, the particle itself included.     *)
Ring(i) ==
    {(i + o) % parameters.num_particles :
        o \in (0 - parameters.neighborhood_size)..parameters.neighborhood_size}

NonDecreasing(h) == \A a \in 1..Len(h) : \A b \in a..Len(h) : h[a] <= h[b]

Within(v, bounds) == \A d \in DOMAIN v : bounds[1] <= v[d] /\ v[d] <= bounds[2]

(* An iteration has just completed (or none has started yet).              *)
AtIterationBoundary ==
    \/ pc = "ready"
    \/ pc = "phase1" /\ idx = 0
    \/ pc = "returned"

---------------------------------------------------------------------------
(* C1: with a parameters dictionary given, construction fails exactly when *)
(* neighborhood_size <= 0 or neighborhood_size >= num_particles / 2 and    *)
(* succeeds for 1 <= neighborhood_size < num_particles / 2; on failure no  *)
(* particle exists and the objective has not been evaluated.               *)
C1_ConstructionFailsExactlyOnBadNeighborhood ==
    (pc # "new" /\ parameters # NoParameters) =>
        /\ (pc = "failed") <=>
               \/ parameters.neighborhood_size <= 0
               \/ 2 * parameters.neighborhood_size >= parameters.num_particles
        /\ Constructed <=>
               /\ 1 <= parameters.neighborhood_size
               /\ 2 * parameters.neighborhood_size < parameters.num_particles
        /\ (pc = "failed") =>
               /\ error = "ValueError: neighborhood size"
               /\ swarm = <<>>
               /\ evaluations = <<>>

C1_Witness ==
    /\ pc = "failed"
    /\ parameters # NoParameters
    /\ parameters.neighborhood_size >= 1
    /\ 2 * parameters.neighborhood_size = parameters.num_particles

(* C2: once phase 1 of an iteration is complete, the local-best score      *)
(* logged for every particle equals the maximum best_score over its ring   *)
(* neighbourhood, taken from the personal bests at the end of the phase.   *)
C2_LoggedLocalBestUsesFinalPersonalBests ==
    (pc = "phase2" /\ idx = 0) =>
        \A i \in ParticleIndices :
            lbest_scores_history[i][Len(lbest_scores_history[i])]
                = SetMax({swarm[j].best_score : j \in Ring(i)})

(* C3: global_best_score never decreases in a step, and score_history is   *)
(* non-decreasing.                                                         *)
C3_GlobalBestNonDecreasing ==
    [][/\ global_best_score' >= global_best_score
       /\ NonDecreasing(score_history')]_vars

C3_Witness ==
    /\ Len(score_history) >= 2
    /\ score_history[2] > score_history[1]
    /\ score_history[1] > NegInf

(* C4: during the first run every history has exactly one entry per        *)
(* completed iteration, and max_iterations entries when optimize() has     *)
(* returned.                                                               *)
HistoryLengthsAre(t) ==
    /\ Len(score_history) = t
    /\ Len(kinetic_energy_history) = t
    /\ \A i \in ParticleIndices :
          /\ Len(swarm[i].energy_history) = t
          /\ Len(swarm[i].kinetic_energy_history) = t
          /\ Len(pbest_scores_history[i]) = t
          /\ Len(lbest_scores_history[i]) = t

C4_HistoryLengths ==
    (Constructed /\ calls <= 1 /\ AtIterationBoundary) =>
        /\ HistoryLengthsAre(iteration)
        /\ (pc = "returned") => HistoryLengthsAre(parameters.max_iterations)

C4_Witness ==
    /\ pc = "returned"
    /\ calls = 1
    /\ parameters.max_iterations = MaxIterations
    /\ Len(score_history) = MaxIterations

(* C8: a freshly constructed particle has a position of length dimensions  *)
(* within position_bounds, zero velocity, best_score = -infinity,          *)
(* best_position = position and empty energy histories.                    *)
C8_FreshParticle ==
    (pc = "ready" /\ calls = 0) =>
        \A i \in ParticleIndices :
            /\ Len(swarm[i].position) = parameters.dimensions
            /\ Within(swarm[i].position, parameters.position_bounds)
            /\ Len(swarm[i].velocity) = parameters.dimensions
            /\ \A d \in 1..parameters.dimensions : swarm[i].velocity[d] = 0
            /\ swarm[i].best_score = NegInf
            /\ swarm[i].best_position = swarm[i].position
            /\ swarm[i].energy_history = <<>>
            /\ swarm[i].kinetic_energy_history = <<>>

C8_Witness ==
    /\ pc = "ready"
    /\ calls = 0
    /\ parameters.dimensions = 2
    /\ swarm[0].position # swarm[1].position
    /\ swarm[0].position # <<0, 0>>

(* C9: after the aggregation of an iteration, global_best_score is the     *)
(* maximum best_score of the swarm and the maximum score evaluate has      *)
(* returned so far, global_best_position is a position evaluated to that   *)
(* score, and the score lies above -infinity and at most at the            *)
(* objective's maximum.                                                    *)
ObjectiveMaximum(f) == IF f = "constant" THEN 1 ELSE 0

EvaluatedScores == {evaluations[n].score : n \in 1..Len(evaluations)}

C9_GlobalBestIsMaximumEvaluated ==
    (Constructed /\ AtIterationBoundary /\ iteration >= 1) =>
        /\ global_best_score = SetMax({swarm[i].best_score : i \in ParticleIndices})
        /\ global_best_score = SetMax(EvaluatedScores)
        /\ \E n \in 1..Len(evaluations) :
              /\ evaluations[n].position = global_best_position
              /\ evaluations[n].score = global_best_score
        /\ global_best_score > NegInf
        /\ global_best_score <= ObjectiveMaximum(fitness_function)
        /\ (fitness_function = "sphere") => global_best_score <= 0

C9_Witness ==
    /\ pc = "returned"
    /\ parameters.max_iterations >= 1
    /\ fitness_function = "sphere"
    /\ global_best_score < 0
    /\ global_best_score > swarm[0].best_score
    /\ \E i \in ParticleIndices : swarm[i].position # global_best_position

(* C5: _get_local_best_score(i) returns the maximum best_score over the    *)
(* ring neighbourhood {(i+o) mod num_particles : -k <= o <= k} and leaves  *)
(* the swarm as it was.                                                    *)
C5_LocalBestScoreIsRingMaximum ==
    (last_call.op = "_get_local_best_score") =>
        /\ last_call.result =
               SetMax({swarm[j].best_score : j \in Ring(last_call.particle_index)})
        /\ swarm = last_call.swarm_before

C5_Witness ==
    /\ last_call.op = "_get_local_best_score"
    /\ parameters.num_particles = 5
    /\ parameters.neighborhood_size = 1
    /\ last_call.particle_index = 0
    /\ last_call.result = swarm[4].best_score
    /\ swarm[4].best_score > swarm[0].best_score
    /\ swarm[4].best_score > swarm[1].best_score
    /\ swarm[2].best_score > swarm[4].best_score

(* C6: after a call of update_velocity every component of the velocity is  *)
(* within velocity_bounds, whatever the velocity was before.               *)
C6_VelocityClampedAfterUpdate ==
    (last_call.op = "update_velocity") =>
        \A d \in 1..parameters.dimensions :
            /\ parameters.velocity_bounds[1] <= swarm[0].velocity[d]
            /\ swarm[0].velocity[d] <= parameters.velocity_bounds[2]

C6_Witness ==
    /\ last_call.op = "update_velocity"
    /\ last_call.before.velocity[1] > parameters.velocity_bounds[2]
    /\ swarm[0].velocity[1] = parameters.velocity_bounds[1]
    /\ parameters.w = 2

(* C7: every particle's position is within position_bounds in every state  *)
(* from construction on, and a phase-2 step leaves particle idx at         *)
(* position + velocity*dt when that is within the bounds and at the bound  *)
(* it crossed otherwise.                                                   *)
PositionsWithinBounds ==
    Constructed =>
        \A i \in ParticleIndices : Within(swarm[i].position, parameters.position_bounds)

PositionStepClamps ==
    (pc = "phase2") =>
        \A d \in 1..parameters.dimensions :
            LET target == swarm[idx].position[d] + swarm'[idx].velocity[d] * parameters.dt
                lo == parameters.position_bounds[1]
                hi == parameters.position_bounds[2]
            IN  /\ (lo <= target /\ target <= hi) => swarm'[idx].position[d] = target
                /\ (target < lo) => swarm'[idx].position[d] = lo
                /\ (target > hi) => swarm'[idx].position[d] = hi

C7_PositionsAlwaysWithinBounds ==
    []PositionsWithinBounds /\ [][PositionStepClamps]_vars

(* Particle 0 was evaluated at the upper bound 3 (score -9), got velocity  *)
(* 1 and was clamped back to 3.                                            *)
C7_Witness ==
    /\ pc \in {"phase2", "aggregate"}
    /\ fitness_function = "sphere"
    /\ parameters.position_bounds = <<1, 3>>
    /\ Len(swarm[0].kinetic_energy_history) = Len(swarm[0].energy_history)
    /\ swarm[0].energy_history[Len(swarm[0].energy_history)] = -9
    /\ swarm[0].velocity = <<1>>
    /\ swarm[0].position = <<3>>

(* C10: optimize() returns, and when it has returned exactly               *)
(* max_iterations iterations have run, evaluate has been called            *)
(* num_particles * max_iterations times, once per particle per iteration   *)
(* in index order, each time on the particle's position at that time.      *)
EvaluatedThisIteration ==
    IF pc = "phase1" THEN 0..(idx - 1)
    ELSE IF pc = "phase2" /\ idx = 0 THEN ParticleIndices
    ELSE {}

RunAccounting ==
    /\ (pc = "returned" /\ calls = 1) =>
          /\ Len(score_history) = parameters.max_iterations
          /\ Len(evaluations) = parameters.num_particles * parameters.max_iterations
          /\ \A t \in 0..(parameters.max_iterations - 1) : \A i \in ParticleIndices :
                evaluations[t * parameters.num_particles + i + 1].particle = i
    /\ (Constructed /\ calls = 1) =>
          \A j \in EvaluatedThisIteration :
              LET e == evaluations[iteration * parameters.num_particles + j + 1]
              IN  /\ e.particle = j
                  /\ e.position = swarm[j].position
                  /\ e.score = Evaluate(fitness_function, swarm[j].position)

(* Statements optimize() still has to execute.                             *)
RemainingSteps ==
    LET perIteration == 2 * parameters.num_particles + 1
        left == (parameters.max_iterations - iteration) * perIteration
    IN  CASE pc = "ready"     -> parameters.max_iterations * perIteration + 1
          [] pc = "phase1"    -> left - idx
          [] pc = "phase2"    -> left - parameters.num_particles - idx
          [] pc = "aggregate" -> left - 2 * parameters.num_particles
          [] OTHER            -> 0

RunProgress ==
    (pc \in {"ready", "phase1", "phase2", "aggregate"}) =>
        /\ RemainingSteps > 0
        /\ RemainingSteps' = RemainingSteps - 1

C10_OptimizeRunsFullBudget ==
    /\ []RunAccounting
    /\ [][RunProgress]_vars
    /\ (pc = "ready") ~> (pc = "returned")

C10_Witness ==
    /\ pc = "returned"
    /\ calls = 1
    /\ parameters.max_iterations = MaxIterations
    /\ parameters.num_particles = MaxParticles
    /\ Len(evaluations) = MaxParticles * MaxIterations
    /\ global_best_score = ObjectiveMaximum(fitness_function)
    /\ score_history[1] = ObjectiveMaximum(fitness_function)

(* C11: load_parameters raises FileNotFoundError when the path does not    *)
(* exist; on an existing file that parses, it raises KeyError naming the   *)
(* first required key (in the order of required_keys) the file lacks,      *)
(* whatever set of keys the file holds, and returns the parameters exactly *)
(* when all eleven keys are present.                                       *)
KeysPresent(f) ==
    IF f.document.tag = "map" THEN DOMAIN f.document.entries ELSE {}

FirstAbsentKey(present) ==
    required_keys[CHOOSE n \in DOMAIN required_keys :
                      /\ required_keys[n] \notin present
                      /\ \A m \in 1..(n - 1) : required_keys[m] \in present]

C11_LoadFailsOnFirstMissingKey ==
    (last_call.op = "load_parameters") =>
        /\ ~file.exists => last_call.outcome.raised = "FileNotFoundError"
        /\ (file.exists /\ file.valid) =>
              IF RequiredKeySet \subseteq KeysPresent(file)
              THEN /\ last_call.outcome.raised = "none"
                   /\ last_call.outcome.result.type = "dict"
                   /\ DOMAIN last_call.outcome.result.entries = KeysPresent(file)
              ELSE /\ last_call.outcome.raised = "KeyError"
                   /\ last_call.outcome.key = FirstAbsentKey(KeysPresent(file))

(* C12: save_parameters followed by load_parameters on the same path       *)
(* returns, for a dictionary holding all required keys, a dictionary with  *)
(* the same keys and equal values, tuples and lists compared item by item. *)
IsSequence(v) == v.type \in {"tuple", "list"}

SameValue(a, b) ==
    IF IsSequence(a) /\ IsSequence(b)
    THEN /\ Len(a.items) = Len(b.items)
         /\ \A n \in DOMAIN a.items : a.items[n] = b.items[n]
    ELSE a = b

C12_SaveThenLoadRoundTrip ==
    (/\ last_call.op = "load_parameters"
     /\ last_call.after = "save_parameters"
     /\ RequiredKeySet \subseteq DOMAIN parameters.entries) =>
        /\ last_call.outcome.raised = "none"
        /\ last_call.outcome.result.type = "dict"
        /\ DOMAIN last_call.outcome.result.entries = DOMAIN parameters.entries
        /\ \A k \in DOMAIN parameters.entries :
              SameValue(last_call.outcome.result.entries[k], parameters.entries[k])

C12_Witness ==
    /\ last_call.op = "load_parameters"
    /\ last_call.after = "save_parameters"
    /\ "seed" \in DOMAIN parameters.entries
    /\ parameters.entries["position_bounds"].type = "tuple"
    /\ parameters.entries["velocity_bounds"].type = "list"
    /\ last_call.outcome.raised = "none"
    /\ last_call.outcome.result.entries["position_bounds"].type = "list"
    /\ last_call.outcome.result # parameters

(* C13: both neighbourhood queries select the same particle: the one with  *)
(* the greatest best_score among the particle itself and its neighbours at *)
(* offsets -k..k, where on a tie the particle itself wins and otherwise    *)
(* the tied neighbour scanned first (offsets ascending from -k); the       *)
(* position query returns that particle's best_position, the score query   *)
(* its best_score.                                                         *)
Offsets == (0 - parameters.neighborhood_size)..parameters.neighborhood_size

(* Place of an offset in the order of comparison: the particle itself,     *)
(* then -k, ..., -1, 1, ..., k.                                            *)
ScanRank(o) ==
    IF o = 0 THEN 0
    ELSE IF o < 0 THEN o + parameters.neighborhood_size + 1
    ELSE o + parameters.neighborhood_size

ScoreAt(i, o) == swarm[(i + o + parameters.num_particles) % parameters.num_particles].best_score

SelectedParticle(i) ==
    LET best == SetMax({ScoreAt(i, o) : o \in Offsets})
        o == CHOOSE a \in Offsets :
                 /\ ScoreAt(i, a) = best
                 /\ \A b \in Offsets : ScoreAt(i, b) = best => ScanRank(a) <= ScanRank(b)
    IN  (i + o + parameters.num_particles) % parameters.num_particles

C13_QueriesSelectSameParticle ==
    /\ (last_call.op = "_get_local_best_position") =>
           last_call.result = swarm[SelectedParticle(last_call.particle_index)].best_position
    /\ (last_call.op = "_get_local_best_score") =>
           last_call.result = swarm[SelectedParticle(last_call.particle_index)].best_score

(* Particle 0 of a ring of five with k = 2: neighbours 3 and 4 (offsets -2 *)
(* and -1) and neighbour 1 tie above particle 0; the position returned is  *)
(* that of particle 3.                                                     *)
C13_Witness ==
    /\ last_call.op = "_get_local_best_position"
    /\ parameters.num_particles = 5
    /\ parameters.neighborhood_size = 2
    /\ last_call.particle_index = 0
    /\ swarm[3].best_score > swarm[0].best_score
    /\ swarm[4].best_score = swarm[3].best_score
    /\ swarm[1].best_score = swarm[3].best_score
    /\ swarm[2].best_score < swarm[3].best_score
    /\ last_call.result = <<3>>

(* A tie between the particle and all its neighbours: the particle's own   *)
(* best_position is returned.                                              *)
C13_SelfWinsTie ==
    /\ last_call.op = "_get_local_best_position"
    /\ parameters.neighborhood_size = 2
    /\ \A o \in Offsets : ScoreAt(last_call.particle_index, o) = 0 - 1
    /\ last_call.result = <<last_call.particle_index>>

(* C14 as claimed: in every state from construction on, every particle's   *)
(* velocity is within velocity_bounds (every configuration of the model    *)
(* has min_vel < max_vel).                                                 *)
C14_VelocityAlwaysWithinBounds ==
    Constructed =>
        \A i \in ParticleIndices : Within(swarm[i].velocity, parameters.velocity_bounds)

(* C14 as amended: a particle's velocity is the zero vector until its      *)
(* first velocity update and within velocity_bounds from that update on;   *)
(* so it is within the bounds in every state when min_vel <= 0 <= max_vel. *)
C14_VelocityWithinBoundsOnceUpdated ==
    Constructed =>
        /\ \A i \in ParticleIndices :
              IF swarm[i].kinetic_energy_history = <<>>
              THEN swarm[i].velocity = Zeros(parameters.dimensions)
              ELSE Within(swarm[i].velocity, parameters.velocity_bounds)
        /\ (parameters.velocity_bounds[1] <= 0 /\ 0 <= parameters.velocity_bounds[2]) =>
              \A i \in ParticleIndices :
                  Within(swarm[i].velocity, parameters.velocity_bounds)

(* velocity_bounds = (1, 2): particle 0 has been updated and moves at a    *)
(* velocity within the bounds, particle 1 still has velocity 0.            *)
C14_Witness ==
    /\ pc = "phase2"
    /\ idx = 1
    /\ parameters.velocity_bounds = <<1, 2>>
    /\ Len(swarm[0].kinetic_energy_history) = 1
    /\ swarm[0].velocity = <<2>>
    /\ swarm[1].velocity = <<0>>

(* C15: a step of the update phase changes no particle's best_score or     *)
(* best_position, so the local-best position of every particle is the same *)
(* before and after the step: whichever particles have already been moved, *)
(* a particle still to be updated receives the local-best position it      *)
(* would have received at the start of the phase.                          *)
UpdateStepKeepsPersonalBests ==
    (pc = "phase2") =>
        /\ \A i \in ParticleIndices :
              /\ swarm'[i].best_score = swarm[i].best_score
              /\ swarm'[i].best_position = swarm[i].best_position
        /\ \A i \in (idx + 1)..(parameters.num_particles - 1) :
              GetLocalBestPosition(swarm', parameters, i)
                  = GetLocalBestPosition(swarm, parameters, i)

C15_UpdatePhaseKeepsPersonalBests == [][UpdateStepKeepsPersonalBests]_vars

(* Particle 2 is about to be updated; its local best is particle 0, which  *)
(* has already moved away from its best position in this phase.            *)
C15_Witness ==
    /\ pc = "phase2"
    /\ idx = 2
    /\ Len(swarm[0].kinetic_energy_history) = Len(swarm[2].kinetic_energy_history) + 1
    /\ swarm[0].position # swarm[0].best_position
    /\ swarm[0].best_score > swarm[1].best_score
    /\ swarm[0].best_score > swarm[2].best_score
    /\ GetLocalBestPosition(swarm, parameters, 2) = swarm[0].best_position
    /\ swarm[0].best_position # swarm[2].best_position

(* C16: at the end of every iteration t and for every particle i,          *)
(* pbest_scores_history[i][t] <= lbest_scores_history[i][t]                *)
(* <= score_history[t]; the personal-best history of a particle is         *)
(* non-decreasing and its t-th entry is the maximum of the particle's      *)
(* energy_history up to t.                                                 *)
C16_RecordedScoresOrdered ==
    (Constructed /\ AtIterationBoundary) =>
        \A i \in ParticleIndices : \A t \in 1..Len(score_history) :
            /\ pbest_scores_history[i][t] <= lbest_scores_history[i][t]
            /\ lbest_scores_history[i][t] <= score_history[t]
            /\ (t > 1) => pbest_scores_history[i][t - 1] <= pbest_scores_history[i][t]
            /\ pbest_scores_history[i][t] =
                   SetMax({swarm[i].energy_history[u] : u \in 1..t})

(* Both inequalities strict in the first iteration, and a personal best    *)
(* that rises in the second while the score evaluated there is lower than  *)
(* another particle's.                                                     *)
C16_Witness ==
    /\ pc = "returned"
    /\ Len(score_history) = 2
    /\ pbest_scores_history[1][1] < lbest_scores_history[1][1]
    /\ lbest_scores_history[1][1] < score_history[1]
    /\ pbest_scores_history[1][1] < pbest_scores_history[1][2]
    /\ \E i \in ParticleIndices :
          swarm[i].energy_history[2] < pbest_scores_history[i][2]

(* C17: optimize() resets nothing.  When the n-th consecutive call has     *)
(* returned every history has n * max_iterations entries; the step that    *)
(* enters a further call leaves the particles (positions, velocities,      *)
(* personal bests), the global best and the histories as the previous call *)
(* left them; and global_best_score never decreases, across calls too.     *)
HistoriesAfterCalls ==
    (pc = "returned") => HistoryLengthsAre(calls * parameters.max_iterations)

CallKeepsEngineState ==
    /\ (pc = "returned") =>
          /\ swarm' = swarm
          /\ global_best_position' = global_best_position
          /\ global_best_score' = global_best_score
          /\ score_history' = score_history
          /\ kinetic_energy_history' = kinetic_energy_history
          /\ pbest_scores_history' = pbest_scores_history
          /\ lbest_scores_history' = lbest_scores_history
    /\ global_best_score' >= global_best_score
    /\ NonDecreasing(score_history')

C17_OptimizeNeverResets ==
    []HistoriesAfterCalls /\ [][CallKeepsEngineState]_vars

(* The second call has returned; the particle that stood at -2 kept moving *)
(* during it and raised the global best in the first iteration of that     *)
(* call.                                                                   *)
C17_Witness ==
    /\ pc = "returned"
    /\ calls = 2
    /\ parameters.max_iterations = 2
    /\ Len(score_history) = 4
    /\ Len(swarm[0].energy_history) = 4
    /\ score_history[2] < score_history[3]
    /\ swarm[0].energy_history[1] = 0 - 4
    /\ swarm[0].energy_history[3] = score_history[3]

=============================================================================
